---------------------------- MODULE Spec2Model ----------------------------
(***************************************************************************)
(* Model of the WSDOT/WSF API client core:                                 *)
(*   - the fetch factory, parameter interpolation and URL construction     *)
(*     (shared/fetching/api, kept here as src/unnamed/part_000), and       *)
(*   - the environment detection and fetch strategy selection              *)
(*     (src/shared/fetching/utils/selectFetchStrategy.ts).                 *)
(*                                                                         *)
(* JavaScript strings are TLA+ strings; a character of a string s is       *)
(* SubSeq(s, i, i), positions counted from 1.                              *)
(***************************************************************************)
EXTENDS Naturals, Sequences, FiniteSets, TLC

VARIABLES
    template,   \* SpecInterp: the endpoint template handed to interpolateParams
    params,     \* SpecInterp: the params argument handed to interpolateParams
    result,     \* SpecInterp: the completion of interpolateParams, or NotRun
    env,        \* the ambient signals: process.env, window, document, user agent
    observed,   \* SpecEnv: the last selectFetchStrategy/getEnvironmentType call
    observations, \* the selectFetchStrategy/getEnvironmentType calls, in call order
    config,     \* configManager: the base URL and the API key
    fetchFn,    \* the client createFetchFactory bound, NoClient before it ran
    calls,      \* the invocations of endpoint functions, in call order
    requests,   \* the invocations of the bound strategy, in call order
    urlApiPath,  \* SpecUrl: the apiPath handed to buildUrl
    urlEndpoint, \* SpecUrl: the interpolated endpoint handed to buildUrl
    builtUrl     \* SpecUrl: the string buildUrl returned, NotBuilt before

interpVars == <<template, params, result>>

envVars == <<env, observed, observations>>

factoryVars == <<config, fetchFn, calls, requests>>

urlVars == <<urlApiPath, urlEndpoint, builtUrl>>

vars == <<template, params, result, env, observed, observations, config, fetchFn, calls, requests,
          urlApiPath, urlEndpoint, builtUrl>>

---------------------------------------------------------------------------
(* Bounds of the model.                                                    *)

\* Number of segments a generated endpoint template is made of, at most.
MaxSegs == 2

\* Number of entries of a generated params object, at most.
MaxParams == 2

\* Number of endpoint invocations of one behaviour, at most.
MaxCalls == 2

\* Number of selectFetchStrategy/getEnvironmentType calls of one behaviour, at
\* most.
MaxObs == 2

---------------------------------------------------------------------------
(* JavaScript string built-ins used by the source.                         *)

CharAt(s, i) == SubSeq(s, i, i)

\* Whether p occurs in s starting at position i.
StartsWithAt(s, p, i) ==
    /\ i >= 1
    /\ i + Len(p) - 1 <= Len(s)
    /\ SubSeq(s, i, i + Len(p) - 1) = p

\* Position of the first occurrence of p in s, 0 when there is none.
indexOf(s, p) ==
    IF \E i \in 1..Len(s) : StartsWithAt(s, p, i)
    THEN CHOOSE i \in 1..Len(s) :
             /\ StartsWithAt(s, p, i)
             /\ \A j \in 1..(i - 1) : ~StartsWithAt(s, p, j)
    ELSE 0

\* String.prototype.includes
includes(s, p) == p = "" \/ indexOf(s, p) # 0

\* The grave accent character (U+0060), taken out of a string that closes it
\* with an apostrophe.
GraveAccent == SubSeq("`'", 1, 1)

\* The replacement text of String.prototype.replace(pattern: string,
\* replacement: string): "$$", "$&", "$" before a grave accent and "$" before
\* an apostrophe in the replacement are patterns, expanded against the match:
\* a dollar sign, the matched text, the text before the match and the text
\* after the match (a string pattern has no captures, so "$1" and "$<n>" stay
\* as written).
RECURSIVE GetSubstitution(_, _, _, _)
GetSubstitution(matched, str, position, replacement) ==
    IF replacement = "" THEN ""
    ELSE IF Len(replacement) >= 2 /\ CharAt(replacement, 1) = "$"
    THEN LET c    == CharAt(replacement, 2)
             rest == SubSeq(replacement, 3, Len(replacement))
         IN  CASE c = "$" -> "$" \o GetSubstitution(matched, str, position, rest)
               [] c = "&" -> matched \o GetSubstitution(matched, str, position, rest)
               [] c = GraveAccent -> SubSeq(str, 1, position - 1)
                                 \o GetSubstitution(matched, str, position, rest)
               [] c = "'" -> SubSeq(str, position + Len(matched), Len(str))
                                 \o GetSubstitution(matched, str, position, rest)
               [] OTHER   -> "$" \o GetSubstitution(matched, str, position,
                                                    Tail(replacement))
    ELSE CharAt(replacement, 1)
             \o GetSubstitution(matched, str, position, Tail(replacement))

\* A replace that goes on through every occurrence of the pattern, as
\* String.prototype.replaceAll does.
RECURSIVE replaceEvery(_, _, _)
replaceEvery(s, p, r) ==
    LET pos == indexOf(s, p)
    IN  IF pos = 0 THEN s
        ELSE SubSeq(s, 1, pos - 1)
                 \o GetSubstitution(p, s, pos, r)
                 \o replaceEvery(SubSeq(s, pos + Len(p), Len(s)), p, r)

\* String.prototype.replace with a string pattern: the first occurrence only.
replace(s, p, r) ==
    LET pos == indexOf(s, p)
    IN  IF pos = 0 THEN s
        ELSE SubSeq(s, 1, pos - 1)
                 \o GetSubstitution(p, s, pos, r)
                 \o SubSeq(s, pos + Len(p), Len(s))

\* Position of the first "}" of s at or after position i, 0 when there is none.
RECURSIVE closingBrace(_, _)
closingBrace(s, i) ==
    IF i > Len(s) THEN 0
    ELSE IF CharAt(s, i) = "}" THEN i
    ELSE closingBrace(s, i + 1)

\* s.match(/\{[^}]+\}/g) from position i on: the matches left to right, none
\* overlapping. A match starts at a "{" and ends at the first "}" after it,
\* with at least one character between them.
RECURSIVE matchAll(_, _)
matchAll(s, i) ==
    IF i > Len(s) THEN <<>>
    ELSE LET j == closingBrace(s, i + 1)
         IN  IF CharAt(s, i) = "{" /\ j >= i + 2
             THEN <<SubSeq(s, i, j)>> \o matchAll(s, j + 1)
             ELSE matchAll(s, i + 1)

\* Array.prototype.join(", ")
RECURSIVE join(_)
join(list) ==
    IF list = <<>> THEN ""
    ELSE IF Len(list) = 1 THEN list[1]
    ELSE list[1] \o ", " \o join(Tail(list))

\* endpoint.match(/\{[^}]+\}/g)?.join(", ") || "none"
availablePlaceholders(endpoint) ==
    LET m == matchAll(endpoint, 1)
    IN  IF m = <<>> THEN "none" ELSE join(m)

---------------------------------------------------------------------------
(* JavaScript values (JsonWithDates) and their text.                       *)

Undefined == [t |-> "undefined"]
Null      == [t |-> "null"]
Str(s)    == [t |-> "string", s |-> s]
Num(n)    == [t |-> "number", n |-> n]
Bool(b)   == [t |-> "boolean", b |-> b]
\* A Date, by its local calendar fields (month 1..12).
DateOf(y, m, d) == [t |-> "date", y |-> y, m |-> m, d |-> d]
\* A plain object, by its own enumerable entries in Object.entries order.
Obj(entries) == [t |-> "object", entries |-> entries]

Pad2(n) == IF n < 10 THEN "0" \o ToString(n) ELSE ToString(n)

Pad4(n) ==
    IF n < 10 THEN "000" \o ToString(n)
    ELSE IF n < 100 THEN "00" \o ToString(n)
    ELSE IF n < 1000 THEN "0" \o ToString(n)
    ELSE ToString(n)

\* The date-formatting collaborator: YYYY-MM-DD from the local calendar fields.
jsDateToYyyyMmDd(v) == Pad4(v.y) \o "-" \o Pad2(v.m) \o "-" \o Pad2(v.d)

\* String(value) for the values the model draws (numbers are naturals).
String(v) ==
    CASE v.t = "string"    -> v.s
      [] v.t = "number"    -> ToString(v.n)
      [] v.t = "boolean"   -> IF v.b THEN "true" ELSE "false"
      [] v.t = "undefined" -> "undefined"
      [] v.t = "null"      -> "null"
      [] OTHER             -> "[object Object]"

\* value instanceof Date ? jsDateToYyyyMmDd(value) : String(value)
stringValue(v) == IF v.t = "date" THEN jsDateToYyyyMmDd(v) ELSE String(v)

\* Object.entries(params): the entries of a plain object; of a string
\* primitive, one entry per character, keyed by its index.
ObjectEntries(p) ==
    CASE p.t = "object" -> p.entries
      [] p.t = "string" ->
            [i \in 1..Len(p.s) |->
                [key |-> ToString(i - 1), value |-> Str(CharAt(p.s, i))]]
      [] OTHER -> <<>>

\* !params
Falsy(p) ==
    \/ p.t \in {"undefined", "null"}
    \/ p.t = "string" /\ p.s = ""
    \/ p.t = "number" /\ p.n = 0
    \/ p.t = "boolean" /\ ~p.b

---------------------------------------------------------------------------
(* Completions: a returned string or a thrown Error.                       *)

Return(s) == [ok |-> TRUE, val |-> s]

Throw(key, available) ==
    [ok        |-> FALSE,
     key       |-> key,
     available |-> available,
     message   |-> "Parameter \"" \o key \o "\" was provided but placeholder \"{"
                       \o key \o "}\" not found in endpoint template. "
                       \o "Available placeholders: " \o available]

\* substituteParam(endpoint, [key, value])
substituteParam(endpoint, entry) ==
    LET placeholder == "{" \o entry.key \o "}"
    IN  IF ~includes(endpoint, placeholder)
        THEN Throw(entry.key, availablePlaceholders(endpoint))
        ELSE Return(replace(endpoint, placeholder, stringValue(entry.value)))

\* Object.entries(params).reduce(substituteParam, endpointTemplate): the fold
\* stops at the first entry that throws.
RECURSIVE reduce(_, _)
reduce(entries, endpoint) ==
    IF entries = <<>> THEN Return(endpoint)
    ELSE LET r == substituteParam(endpoint, Head(entries))
         IN  IF r.ok THEN reduce(Tail(entries), r.val) ELSE r

\* interpolateParams without its guard for absent params: Object.entries of
\* undefined or null is a TypeError.
interpolateParamsNoGuard(endpointTemplate, p) ==
    IF p.t \in {"undefined", "null"}
    THEN [ok |-> FALSE, key |-> "", available |-> "",
          message |-> "Cannot convert undefined or null to object"]
    ELSE reduce(ObjectEntries(p), endpointTemplate)

\* interpolateParams(endpointTemplate, params)
interpolateParams(endpointTemplate, p) ==
    IF Falsy(p) \/ Len(ObjectEntries(p)) = 0
    THEN Return(endpointTemplate)
    ELSE reduce(ObjectEntries(p), endpointTemplate)

---------------------------------------------------------------------------
(* The inputs of the interpolation specification.                          *)

\* Pieces the generated endpoint templates are made of.
Segments == {"/a", "/{x}", "/{y}", "?q={x}"}

RECURSIVE concat(_)
concat(list) == IF list = <<>> THEN "" ELSE Head(list) \o concat(Tail(list))

Templates ==
    {concat(segs) : segs \in UNION {[1..n -> Segments] : n \in 1..MaxSegs}}

Keys == {"x", "y", "z"}

Values ==
    {Num(5), Bool(FALSE), Str("b"), Str("{y}"), Str("$&"), Str("$$"),
     Str("$" \o GraveAccent \o "'"), Str("a?b"), DateOf(2024, 1, 15)}

\* The entry lists of the plain objects with at most MaxParams keys: no key twice.
EntryLists ==
    {es \in UNION {[1..n -> [key : Keys, value : Values]] : n \in 0..MaxParams} :
        \A i, j \in 1..Len(es) : i # j => es[i].key # es[j].key}

ParamsArgs == {Undefined} \cup {Obj(es) : es \in EntryLists}

NotRun == [ok |-> FALSE, key |-> "", available |-> "", message |-> "not run"]

---------------------------------------------------------------------------
(* Environment detection and strategy selection (selectFetchStrategy.ts).  *)

\* An environment variable is Undefined or Str(value). Without a process
\* global there is no process.env; without a window global there is no
\* navigator. userAgent stands for window.navigator?.userAgent.
EnvVarNodeEnv  == {Undefined, Str("test"), Str("production")}
EnvVarWorkerId == {Undefined, Str(""), Str("1")}
EnvVarForce    == {Undefined, Str("true"), Str("false"), Str("1")}
UserAgents ==
    {Undefined, Str(""), Str("Mozilla/5.0 Chrome/120"),
     Str("Mozilla/5.0 (linux) jsdom/22.1.0"), Str("Mozilla/5.0 happy-dom/12.0")}

Envs ==
    {e \in [process : BOOLEAN, NODE_ENV : EnvVarNodeEnv,
            VITEST_WORKER_ID : EnvVarWorkerId, FORCE_JSONP : EnvVarForce,
            window : BOOLEAN, document : BOOLEAN, userAgent : UserAgents] :
        /\ ~e.process =>
              /\ e.NODE_ENV = Undefined
              /\ e.VITEST_WORKER_ID = Undefined
              /\ e.FORCE_JSONP = Undefined
        /\ ~e.window => e.userAgent = Undefined}

\* JavaScript truthiness of an optional string.
Truthy(v) == v.t = "string" /\ v.s # ""

\* isWebEnvironment satisfied by either global alone.
isWebEnvironmentEither(e) == e.window \/ e.document

isWebEnvironment(e) == e.window /\ e.document

isTestEnvironment(e) ==
    IF e.process /\ (e.NODE_ENV = Str("test") \/ e.VITEST_WORKER_ID # Undefined)
    THEN TRUE
    ELSE IF e.window /\ Truthy(e.userAgent)
    THEN includes(e.userAgent.s, "jsdom") \/ includes(e.userAgent.s, "happy-dom")
    ELSE FALSE

\* getEnvironmentType with the browser check ahead of the test check.
getEnvironmentTypeWebFirst(e) ==
    IF isWebEnvironment(e) THEN "web"
    ELSE IF isTestEnvironment(e) THEN "test"
    ELSE "server"

getEnvironmentType(e) ==
    IF isTestEnvironment(e) THEN "test"
    ELSE IF isWebEnvironment(e) THEN "web"
    ELSE "server"

\* selectFetchStrategy with the override read after the test case returned.
selectFetchStrategyTestFirst(e) ==
    LET environment == getEnvironmentType(e)
    IN  IF environment = "test" THEN "fetchNative"
        ELSE IF e.process /\ e.FORCE_JSONP = Str("true") THEN "fetchJsonp"
        ELSE IF environment = "web" THEN "fetchJsonp"
        ELSE "fetchNative"

selectFetchStrategy(e) ==
    LET environment == getEnvironmentType(e)
    IN  IF e.process /\ e.FORCE_JSONP = Str("true") THEN "fetchJsonp"
        ELSE CASE environment \in {"test", "server"} -> "fetchNative"
               [] environment = "web" -> "fetchJsonp"
               [] OTHER -> "fetchNative"

---------------------------------------------------------------------------
(* The fetch factory (createFetchFactory) and URL construction.            *)

\* getApiKeyParam(apiPath)
getApiKeyParam(apiPath) ==
    IF includes(apiPath, "/ferries/") THEN "apiaccesscode" ELSE "AccessCode"

\* buildUrl with the key parameter name looked up in the path and the endpoint.
buildUrlKeyFromWholePath(apiPath, endpoint, cfg) ==
    LET apiKeyParam == getApiKeyParam(apiPath \o endpoint)
        separator   == IF includes(endpoint, "?") THEN "&" ELSE "?"
    IN  cfg.baseUrl \o apiPath \o endpoint \o separator \o apiKeyParam \o "="
            \o cfg.apiKey

\* buildUrl that always starts the query string.
buildUrlAlwaysQuestionMark(apiPath, endpoint, cfg) ==
    cfg.baseUrl \o apiPath \o endpoint \o "?" \o getApiKeyParam(apiPath) \o "="
        \o cfg.apiKey

\* buildUrl(apiPath, endpoint), reading configManager at the time of the call
buildUrl(apiPath, endpoint, cfg) ==
    LET baseUrl     == cfg.baseUrl
        apiKeyParam == getApiKeyParam(apiPath)
        separator   == IF includes(endpoint, "?") THEN "&" ELSE "?"
    IN  baseUrl \o apiPath \o endpoint \o separator \o apiKeyParam \o "="
            \o cfg.apiKey

\* createApiClient(): the client wraps the strategy selected when it is made.
createApiClient(e) == selectFetchStrategy(e)

\* The API path of the schedule module's factory.
SchedulePath == "/ferries/api/schedule/rest"

\* Endpoint functions of the schedule module, by the template each was made of.
EndpointTemplates ==
    [getAlerts               |-> "/alerts",
     getScheduleByRoute      |-> "/schedule/{tripDate}/{routeId}",
     getScheduleTodayByRoute |-> "/scheduletoday/{routeId}/{onlyRemainingTimes}",
     getScheduleTodayByTerminals |->
         "/scheduletoday/{departingTerminalId}/{arrivingTerminalId}/{onlyRemainingTimes}"]

\* The endpoint functions Spec calls.
EndpointNames == {"getAlerts", "getScheduleByRoute", "getScheduleTodayByRoute"}

\* The endpoint functions whose onlyRemainingTimes parameter is optional.
TodayEndpoints == {"getScheduleTodayByRoute", "getScheduleTodayByTerminals"}

\* The n-th actual argument of a call, undefined when it is not passed.
Arg(args, n) == IF n <= Len(args) THEN args[n] ELSE Undefined

\* What one synchronous run of an endpoint function does before it returns:
\* it throws, or it hands one request to the bound client and returns the
\* client's promise. fetched lists the requests handed to the client.
Threw(error, fetched)  == [threw |-> TRUE, error |-> error, fetched |-> fetched]
Returned(fetched)      == [threw |-> FALSE, error |-> NotRun, fetched |-> fetched]

\* An endpoint function that hands the request to the client before it looks
\* at the outcome of the interpolation.
endpointFunctionFetchFirst(apiPath, endpointTemplate, args, cfg) ==
    LET p        == Arg(args, 1)
        logMode  == Arg(args, 2)
        endpoint == interpolateParams(endpointTemplate, p)
        sent     == <<[url     |-> buildUrl(apiPath,
                                      IF endpoint.ok THEN endpoint.val
                                      ELSE endpointTemplate, cfg),
                       logMode |-> logMode]>>
    IN  IF ~endpoint.ok THEN Threw(endpoint, sent) ELSE Returned(sent)

\* An endpoint function that hands the request to the client a second time.
endpointFunctionRetry(apiPath, endpointTemplate, args, cfg) ==
    LET p        == Arg(args, 1)
        logMode  == Arg(args, 2)
        endpoint == interpolateParams(endpointTemplate, p)
        request  == [url     |-> buildUrl(apiPath, endpoint.val, cfg),
                     logMode |-> logMode]
    IN  IF ~endpoint.ok THEN Threw(endpoint, <<>>)
        ELSE Returned(<<request, request>>)

\* The function createFetch(endpointTemplate) returns, applied to args
\* (params, logMode).
endpointFunction(apiPath, endpointTemplate, args, cfg) ==
    LET p        == Arg(args, 1)
        logMode  == Arg(args, 2)
        endpoint == interpolateParams(endpointTemplate, p)
    IN  IF ~endpoint.ok THEN Threw(endpoint, <<>>)
        ELSE Returned(<<[url     |-> buildUrl(apiPath, endpoint.val, cfg),
                         logMode |-> logMode]>>)

\* A client made anew by each invocation, from the signals of that moment.
clientOfCallFresh(factoryClient, e) == createApiClient(e)

\* The client an invocation delegates to: fetchFn of the factory's closure,
\* whatever the ambient signals e are when the invocation runs.
clientOfCall(factoryClient, e) == factoryClient

\* The configuration the process starts with.
DefaultConfig == [baseUrl |-> "https://www.wsdot.wa.gov", apiKey |-> "KEY"]

\* The configuration as it was when the module was loaded, kept for every
\* later invocation.
configAtLoad(cfg) == DefaultConfig

\* What configManager.getBaseUrl() and configManager.getApiKey() give buildUrl
\* when an invocation runs it: the configuration cfg of that moment.
configRead(cfg) == cfg

NoCall == [op |-> "none"]

\* The environment of a Node.js server process with nothing set.
ServerEnv ==
    [process |-> TRUE, NODE_ENV |-> Undefined, VITEST_WORKER_ID |-> Undefined,
     FORCE_JSONP |-> Undefined, window |-> FALSE, document |-> FALSE,
     userAgent |-> Undefined]

\* The environment of a browser page (no process global).
BrowserEnv ==
    [process |-> FALSE, NODE_ENV |-> Undefined, VITEST_WORKER_ID |-> Undefined,
     FORCE_JSONP |-> Undefined, window |-> TRUE, document |-> TRUE,
     userAgent |-> Str("Mozilla/5.0 Chrome/120")]

NoClient == "none"

\* The value of builtUrl before buildUrl ran.
NotBuilt == "not built"

---------------------------------------------------------------------------
(* SpecInterp: interpolateParams applied to every drawn input.             *)

InitInterp ==
    /\ urlApiPath = "" /\ urlEndpoint = "" /\ builtUrl = NotBuilt
    /\ template \in Templates
    /\ params \in ParamsArgs
    /\ result = NotRun
    /\ env = ServerEnv
    /\ observed = NoCall
    /\ observations = <<>>
    /\ config = DefaultConfig
    /\ fetchFn = NoClient
    /\ calls = <<>>
    /\ requests = <<>>

Interpolate ==
    /\ result = NotRun
    /\ result' = interpolateParams(template, params)
    /\ UNCHANGED <<template, params, envVars, factoryVars, urlVars>>

NextInterp == Interpolate

SpecInterp == InitInterp /\ [][NextInterp]_vars

---------------------------------------------------------------------------
(* SpecEnv: the selector and the detector called in every environment.     *)

InitEnv ==
    /\ urlApiPath = "" /\ urlEndpoint = "" /\ builtUrl = NotBuilt
    /\ env \in Envs
    /\ observed = NoCall
    /\ observations = <<>>
    /\ template = ""
    /\ params = Undefined
    /\ result = NotRun
    /\ config = DefaultConfig
    /\ fetchFn = NoClient
    /\ calls = <<>>
    /\ requests = <<>>

\* A selectFetchStrategy() that keeps the strategy it selected first.
SelectMemo ==
    /\ Len(observations) < MaxObs
    /\ LET earlier == SelectSeq(observations, LAMBDA o : o.op = "select")
       IN  observed' = [op |-> "select", env |-> env,
                        value |-> IF earlier # <<>> THEN earlier[1].value
                                  ELSE selectFetchStrategy(env)]
    /\ observations' = Append(observations, observed')
    /\ UNCHANGED <<env, interpVars, factoryVars, urlVars>>

\* A call of selectFetchStrategy().
Select ==
    /\ Len(observations) < MaxObs
    /\ observed' = [op |-> "select", env |-> env, value |-> selectFetchStrategy(env)]
    /\ observations' = Append(observations, observed')
    /\ UNCHANGED <<env, interpVars, factoryVars, urlVars>>

\* A call of getEnvironmentType().
Classify ==
    /\ Len(observations) < MaxObs
    /\ observed' = [op |-> "classify", env |-> env, value |-> getEnvironmentType(env)]
    /\ observations' = Append(observations, observed')
    /\ UNCHANGED <<env, interpVars, factoryVars, urlVars>>

NextEnv == Select \/ Classify

SpecEnv == InitEnv /\ [][NextEnv]_vars

---------------------------------------------------------------------------
(* Spec: one factory, its endpoint functions called and their requests     *)
(* settled by the transport strategy.                                      *)

LogModes == {Str("debug")}

RouteParams     == Obj(<<[key |-> "routeId", value |-> Num(5)]>>)
ScheduleParams  ==
    Obj(<<[key |-> "tripDate", value |-> DateOf(2024, 1, 15)],
          [key |-> "routeId", value |-> Num(5)]>>)
TodayParams     ==
    Obj(<<[key |-> "routeId", value |-> Num(5)],
          [key |-> "onlyRemainingTimes", value |-> Bool(TRUE)]>>)

TerminalsParams ==
    Obj(<<[key |-> "departingTerminalId", value |-> Num(1)],
          [key |-> "arrivingTerminalId", value |-> Num(10)]>>)

\* The argument lists the endpoint functions are called with.
ArgLists ==
    {<<>>, <<Str("debug")>>, <<Undefined, Str("debug")>>,
     <<RouteParams>>, <<ScheduleParams, Str("debug")>>, <<TodayParams>>}

TransportFailure == [ok |-> FALSE, key |-> "", available |-> "",
                     message |-> "TransportFailure"]

Init ==
    /\ urlApiPath = "" /\ urlEndpoint = "" /\ builtUrl = NotBuilt
    /\ env \in {ServerEnv, BrowserEnv}
    /\ config = DefaultConfig
    /\ fetchFn = NoClient
    /\ calls = <<>>
    /\ requests = <<>>
    /\ observed = NoCall
    /\ observations = <<>>
    /\ template = ""
    /\ params = Undefined
    /\ result = NotRun

\* createFetchFactory(SchedulePath), run when the schedule module loads.
CreateFetchFactory ==
    /\ fetchFn = NoClient
    /\ fetchFn' = createApiClient(env)
    /\ UNCHANGED <<env, observed, observations, config, calls, requests, interpVars, urlVars>>

\* A call name(...args) of an endpoint function, up to its return or throw.
Invoke(name, args) ==
    /\ fetchFn # NoClient
    /\ Len(calls) < MaxCalls
    /\ LET run == endpointFunction(SchedulePath, EndpointTemplates[name], args,
                                   configRead(config))
           id  == Len(calls) + 1
       IN  /\ calls' = Append(calls,
                  [endpoint |-> name, args |-> args,
                   status   |-> IF run.threw THEN "threw" ELSE "pending",
                   error    |-> run.error])
           /\ requests' = requests \o
                  [k \in 1..Len(run.fetched) |->
                      [call     |-> id,
                       url      |-> run.fetched[k].url,
                       logMode  |-> run.fetched[k].logMode,
                       strategy |-> clientOfCall(fetchFn, env),
                       env      |-> env,
                       config   |-> config]]
    /\ UNCHANGED <<env, observed, observations, config, fetchFn, interpVars, urlVars>>

\* The strategy's promise of call i is fulfilled: so is the promise the
\* endpoint function returned.
StrategyResolves(i) ==
    /\ calls[i].status = "pending"
    /\ calls' = [calls EXCEPT ![i].status = "resolved"]
    /\ UNCHANGED <<env, observed, observations, config, fetchFn, requests, interpVars, urlVars>>

\* A rejection that reaches every pending call, as if the endpoint functions
\* shared one promise.
StrategyRejectsAll(i) ==
    /\ calls[i].status = "pending"
    /\ calls' = [j \in DOMAIN calls |->
                    IF calls[j].status = "pending"
                    THEN [calls[j] EXCEPT !.status = "rejected",
                                          !.error = TransportFailure]
                    ELSE calls[j]]
    /\ UNCHANGED <<env, observed, observations, config, fetchFn, requests, interpVars, urlVars>>

\* The strategy's promise of call i is rejected: so is the promise the
\* endpoint function returned, with the same error.
StrategyRejects(i) ==
    /\ calls[i].status = "pending"
    /\ calls' = [calls EXCEPT ![i].status = "rejected", ![i].error = TransportFailure]
    /\ UNCHANGED <<env, observed, observations, config, fetchFn, requests, interpVars, urlVars>>

Next ==
    \/ CreateFetchFactory
    \/ \E name \in EndpointNames, args \in ArgLists : Invoke(name, args)
    \/ \E i \in DOMAIN calls : StrategyResolves(i)
    \/ \E i \in DOMAIN calls : StrategyRejects(i)

Spec == Init /\ [][Next]_vars

---------------------------------------------------------------------------
(* SpecToday: the two endpoint functions of today's schedule, called with  *)
(* and without their optional parameter.                                   *)

TerminalsTodayParams ==
    Obj(TerminalsParams.entries
            \o <<[key |-> "onlyRemainingTimes", value |-> Bool(TRUE)]>>)

TodayArgLists ==
    {<<RouteParams>>, <<TodayParams>>, <<TerminalsParams>>,
     <<TerminalsTodayParams>>, <<RouteParams, Str("debug")>>}

NextToday ==
    \/ CreateFetchFactory
    \/ \E name \in TodayEndpoints, args \in TodayArgLists : Invoke(name, args)
    \/ \E i \in DOMAIN calls : StrategyResolves(i)
    \/ \E i \in DOMAIN calls : StrategyRejects(i)

SpecToday == Init /\ [][NextToday]_vars

---------------------------------------------------------------------------
(* SpecAmbient: the factory and two of its endpoint functions while the    *)
(* ambient signals change under them.                                      *)

\* A Node.js server process with the override set.
ForcedServerEnv == [ServerEnv EXCEPT !.FORCE_JSONP = Str("true")]

AmbientEnvs == {ServerEnv, BrowserEnv, ForcedServerEnv}

AmbientEndpoints == {"getAlerts", "getScheduleByRoute"}

AmbientArgLists == {<<>>, <<ScheduleParams, Str("debug")>>}

InitAmbient ==
    /\ env \in AmbientEnvs
    /\ config = DefaultConfig
    /\ fetchFn = NoClient
    /\ calls = <<>>
    /\ requests = <<>>
    /\ observed = NoCall
    /\ observations = <<>>
    /\ template = ""
    /\ params = Undefined
    /\ result = NotRun
    /\ urlApiPath = "" /\ urlEndpoint = "" /\ builtUrl = NotBuilt

\* The ambient signals change: an environment variable is set or unset, the
\* globals of a page appear or go.
SetEnv(e) ==
    /\ e # env
    /\ env' = e
    /\ UNCHANGED <<observed, observations, interpVars, factoryVars, urlVars>>

NextAmbient ==
    \/ CreateFetchFactory
    \/ \E e \in AmbientEnvs : SetEnv(e)
    \/ \E name \in AmbientEndpoints, args \in AmbientArgLists : Invoke(name, args)
    \/ \E i \in DOMAIN calls : StrategyResolves(i)
    \/ \E i \in DOMAIN calls : StrategyRejects(i)

SpecAmbient == InitAmbient /\ [][NextAmbient]_vars

---------------------------------------------------------------------------
(* SpecConfig: the factory and two of its endpoint functions while the     *)
(* configuration changes between the invocations.                          *)

ChangedConfigs ==
    {DefaultConfig,
     [DefaultConfig EXCEPT !.baseUrl = "http://localhost:3000"],
     [DefaultConfig EXCEPT !.apiKey = "K2"]}

InitConfig ==
    /\ env = ServerEnv
    /\ config = DefaultConfig
    /\ fetchFn = NoClient
    /\ calls = <<>>
    /\ requests = <<>>
    /\ observed = NoCall
    /\ observations = <<>>
    /\ template = ""
    /\ params = Undefined
    /\ result = NotRun
    /\ urlApiPath = "" /\ urlEndpoint = "" /\ builtUrl = NotBuilt

\* The configuration collaborator is given another base URL or API key.
SetConfig(c) ==
    /\ c # config
    /\ config' = c
    /\ UNCHANGED <<env, observed, observations, fetchFn, calls, requests,
                   interpVars, urlVars>>

NextConfig ==
    \/ CreateFetchFactory
    \/ \E c \in ChangedConfigs : SetConfig(c)
    \/ \E name \in AmbientEndpoints, args \in AmbientArgLists : Invoke(name, args)
    \/ \E i \in DOMAIN calls : StrategyResolves(i)
    \/ \E i \in DOMAIN calls : StrategyRejects(i)

SpecConfig == InitConfig /\ [][NextConfig]_vars

---------------------------------------------------------------------------
(* SpecEnvChange: the selector and the detector called again and again     *)
(* while the ambient signals change between the calls.                     *)

ChangeEnvs ==
    {ServerEnv, BrowserEnv, ForcedServerEnv,
     [ServerEnv EXCEPT !.NODE_ENV = Str("test")],
     [ServerEnv EXCEPT !.VITEST_WORKER_ID = Str("1")],
     [ServerEnv EXCEPT !.NODE_ENV = Str("test"), !.FORCE_JSONP = Str("true")],
     [BrowserEnv EXCEPT !.document = FALSE],
     [BrowserEnv EXCEPT !.userAgent = Str("Mozilla/5.0 (linux) jsdom/22.1.0")],
     [BrowserEnv EXCEPT !.process = TRUE, !.FORCE_JSONP = Str("false")]}

InitEnvChange ==
    /\ env \in ChangeEnvs
    /\ observed = NoCall
    /\ observations = <<>>
    /\ template = ""
    /\ params = Undefined
    /\ result = NotRun
    /\ config = DefaultConfig
    /\ fetchFn = NoClient
    /\ calls = <<>>
    /\ requests = <<>>
    /\ urlApiPath = "" /\ urlEndpoint = "" /\ builtUrl = NotBuilt

NextEnvChange ==
    \/ Select
    \/ Classify
    \/ \E e \in ChangeEnvs : SetEnv(e)

SpecEnvChange == InitEnvChange /\ [][NextEnvChange]_vars

---------------------------------------------------------------------------
(* SpecUrl: buildUrl applied to every drawn apiPath, endpoint and          *)
(* configuration.                                                          *)

ApiPaths ==
    {"/ferries/api/schedule/rest", "/ferries/api/vessels/rest",
     "/Traffic/api/HighwayAlerts/HighwayAlertsREST.svc", "/api/other",
     "/ferries", "/api/ferries-info/rest"}

UrlTemplates ==
    {"/alerts", "/x", "/routes/{tripDate}", "/alternativeformats/{subjectName}"}

UrlParams ==
    {Undefined,
     Obj(<<[key |-> "tripDate", value |-> DateOf(2024, 1, 15)]>>),
     Obj(<<[key |-> "subjectName", value |-> Str("a?b")]>>),
     Obj(<<[key |-> "subjectName", value |-> Str("/ferries/")]>>)}

\* The endpoints interpolateParams returns for these templates and params.
InterpolatedEndpoints ==
    {r.val : r \in {c \in {interpolateParams(t, p) : t \in UrlTemplates, p \in UrlParams} :
                       c.ok}}

\* Values of configManager.getBaseUrl() and configManager.getApiKey().
BaseUrls == {"https://www.wsdot.wa.gov", "http://localhost:3000", "http://proxy.test/?u="}
ApiKeys  == {"KEY", "K2"}
Configs  == [baseUrl : BaseUrls, apiKey : ApiKeys]

InitUrl ==
    /\ urlApiPath \in ApiPaths
    /\ urlEndpoint \in InterpolatedEndpoints
    /\ config \in Configs
    /\ builtUrl = NotBuilt
    /\ env = ServerEnv
    /\ observed = NoCall
    /\ observations = <<>>
    /\ fetchFn = NoClient
    /\ calls = <<>>
    /\ requests = <<>>
    /\ template = ""
    /\ params = Undefined
    /\ result = NotRun

\* A call buildUrl(urlApiPath, urlEndpoint).
BuildUrl ==
    /\ builtUrl = NotBuilt
    /\ builtUrl' = buildUrl(urlApiPath, urlEndpoint, config)
    /\ UNCHANGED <<urlApiPath, urlEndpoint, interpVars, envVars, factoryVars>>

NextUrl == BuildUrl

SpecUrl == InitUrl /\ [][NextUrl]_vars

---------------------------------------------------------------------------
(* Properties of the endpoint functions, checked under Spec.               *)

Range(f) == {f[i] : i \in DOMAIN f}

\* The requests the strategy received for call i.
RequestsOf(i) == SelectSeq(requests, LAMBDA r : r.call = i)

CallTemplate(c) == EndpointTemplates[c.endpoint]

\* The completion of the interpolation of call c.
CallInterpolation(c) == interpolateParams(CallTemplate(c), Arg(c.args, 1))

\* The names of the placeholders of a template.
PlaceholderNames(t) == {SubSeq(ph, 2, Len(ph) - 1) : ph \in Range(matchAll(t, 1))}

\* The names of the parameters a params argument supplies.
SuppliedKeys(p) == IF p.t = "object" THEN {e.key : e \in Range(p.entries)} ELSE {}

\* C1: an endpoint function of a template without placeholders, called with a
\* logging mode as its only argument, invokes the bound strategy exactly once,
\* with the URL built from the unchanged template and with that logging mode.
C1_LogModeOnlyCallReachesStrategy ==
    \A i \in DOMAIN calls :
        LET c == calls[i]
        IN  (/\ matchAll(CallTemplate(c), 1) = <<>>
             /\ Len(c.args) = 1
             /\ c.args[1] \in LogModes)
            => /\ c.status # "threw"
               /\ Len(RequestsOf(i)) = 1
               /\ RequestsOf(i)[1].url
                     = buildUrl(SchedulePath, CallTemplate(c), config)
               /\ RequestsOf(i)[1].logMode = c.args[1]

\* C2: a call whose parameter interpolation fails returns a promise rejected
\* with the interpolation error; the error is never thrown out of the call.
C2_InterpolationFailureRejects ==
    \A i \in DOMAIN calls :
        LET c == calls[i]
        IN  ~CallInterpolation(c).ok
            => /\ c.status = "rejected"
               /\ c.error = CallInterpolation(c)

\* C3: a call that leaves a placeholder of its template without a supplied
\* parameter fails at call time, and no request is ever issued for a URL that
\* still holds an unsubstituted placeholder.
C3_MissingParameterFails ==
    /\ \A i \in DOMAIN calls :
           LET c == calls[i]
           IN  PlaceholderNames(CallTemplate(c)) \ SuppliedKeys(Arg(c.args, 1)) # {}
               => c.status = "threw" /\ RequestsOf(i) = <<>>
    /\ \A k \in DOMAIN requests : matchAll(requests[k].url, 1) = <<>>

\* C8: an invocation that fails with a template mismatch has not invoked the
\* bound strategy, in the state where it fails and in every later state.
C8_MismatchBeforeAnyRequest ==
    \A i \in DOMAIN calls :
        (calls[i].status = "threw" \/ ~CallInterpolation(calls[i]).ok)
            => RequestsOf(i) = <<>>

\* A mismatching invocation, followed by an invocation that did reach the
\* strategy and was settled.
C8_Witness ==
    \E i, j \in DOMAIN calls :
        /\ i < j
        /\ calls[i].status = "threw"
        /\ calls[i].error.key = "tripDate"
        /\ calls[j].status = "resolved"
        /\ Len(RequestsOf(j)) = 1

\* C16: an invocation whose interpolation succeeds invokes the bound strategy
\* exactly once, in every state from its call on, with the URL built from the
\* interpolated endpoint; its outcome is the strategy's: when the strategy
\* fails, the failure the caller receives is the strategy's own.
C16_OneStrategyCallFailurePropagated ==
    \A i \in DOMAIN calls :
        LET c        == calls[i]
            endpoint == CallInterpolation(c)
            sent     == RequestsOf(i)
        IN  endpoint.ok
            => /\ Len(sent) = 1
               /\ sent[1].strategy = fetchFn
               /\ sent[1].url = buildUrl(SchedulePath, endpoint.val, config)
               /\ c.status \in {"pending", "resolved", "rejected"}
               /\ c.status = "rejected" => c.error = TransportFailure
               /\ c.status # "rejected" => c.error = NotRun

\* The strategy failed for one invocation, which was followed by another
\* invocation of the same endpoint function with the same arguments.
C16_Witness ==
    \E i, j \in DOMAIN calls :
        /\ i < j
        /\ calls[i].status = "rejected"
        /\ calls[i].error = TransportFailure
        /\ Len(RequestsOf(i)) = 1
        /\ calls[j].endpoint = calls[i].endpoint
        /\ calls[j].args = calls[i].args
        /\ Len(requests) = 2

\* C18: concurrent invocations do not interfere. In every state the URL and
\* the logging mode of each request are those computed from the template and
\* the arguments of the call it belongs to; and every step leaves the requests
\* made so far as they are, changes at most one call, and never changes a call
\* that has its outcome.
C18_NoInterference ==
    /\ [](\A k \in DOMAIN requests :
              LET c        == calls[requests[k].call]
                  endpoint == CallInterpolation(c)
              IN  /\ endpoint.ok
                  /\ requests[k].url
                        = buildUrl(SchedulePath, endpoint.val, config)
                  /\ requests[k].logMode = Arg(c.args, 2))
    /\ [][/\ SubSeq(requests', 1, Len(requests)) = requests
          /\ \A i, j \in DOMAIN calls :
                 (calls'[i] # calls[i] /\ calls'[j] # calls[j]) => i = j
          /\ \A i \in DOMAIN calls :
                 calls[i].status # "pending" => calls'[i] = calls[i]]_vars

\* Two invocations with different URLs and logging modes were pending
\* together, and the strategy failed for the later one while the earlier one
\* is still pending.
C18_Witness ==
    \E i, j \in DOMAIN calls :
        /\ i < j
        /\ calls[i].status = "pending"
        /\ calls[j].status = "rejected"
        /\ RequestsOf(i)[1].url # RequestsOf(j)[1].url
        /\ RequestsOf(i)[1].logMode # RequestsOf(j)[1].logMode

---------------------------------------------------------------------------
(* Properties of interpolateParams, checked under SpecInterp.              *)

Ran == result # NotRun

Placeholder(k) == "{" \o k \o "}"

EndsWith(s, suffix) ==
    /\ Len(suffix) <= Len(s)
    /\ SubSeq(s, Len(s) - Len(suffix) + 1, Len(s)) = suffix

\* Number of occurrences of p in s.
Occurrences(s, p) == Cardinality({i \in 1..Len(s) : StartsWithAt(s, p, i)})

\* C4: with a non-empty params object, a supplied key whose placeholder does
\* not occur in the template makes interpolate fail with a mismatch error
\* naming such a key, wherever the key stands in the object.
C4_ExtraParameterFails ==
    (/\ Ran
     /\ params.t = "object"
     /\ \E e \in Range(params.entries) : ~includes(template, Placeholder(e.key)))
    => /\ ~result.ok
       /\ result.key \in SuppliedKeys(params)
       /\ ~includes(template, Placeholder(result.key))

\* C5: the message of a mismatch failure lists the placeholders of the
\* template passed to interpolate, all of them and only them.
C5_MismatchListsTemplatePlaceholders ==
    (Ran /\ ~result.ok) => result.available = availablePlaceholders(template)

\* C6: with the template holding {x} once and params {x: v}, v not a date, the
\* result is the template with String(v) in the place of {x} and every other
\* character unchanged.
C6_ValueInsertedVerbatim ==
    (/\ Ran
     /\ params.t = "object"
     /\ Len(params.entries) = 1
     /\ params.entries[1].key = "x"
     /\ params.entries[1].value.t # "date"
     /\ Occurrences(template, "{x}") = 1)
    => LET pos == indexOf(template, "{x}")
       IN  result = Return(SubSeq(template, 1, pos - 1)
                               \o String(params.entries[1].value)
                               \o SubSeq(template, pos + 3, Len(template)))

\* The value params supplies for key k.
ValueOf(p, k) == (CHOOSE e \in Range(p.entries) : e.key = k).value

\* Template t from position i on, with every placeholder replaced in place by
\* the text of the value params supplies for it.
RECURSIVE ReplacedInPlace(_, _, _)
ReplacedInPlace(t, i, p) ==
    IF i > Len(t) THEN ""
    ELSE LET j == closingBrace(t, i + 1)
         IN  IF CharAt(t, i) = "{" /\ j >= i + 2
             THEN stringValue(ValueOf(p, SubSeq(t, i + 1, j - 1)))
                      \o ReplacedInPlace(t, j + 1, p)
             ELSE CharAt(t, i) \o ReplacedInPlace(t, i + 1, p)

\* C17: for a template whose placeholders are pairwise distinct, each
\* occurring once, and a params object whose keys are exactly the placeholder
\* names, interpolate returns the template with every placeholder replaced in
\* place by the text of its value (a date as YYYY-MM-DD, any other value by
\* String(value)).
C17_EveryPlaceholderReplacedInPlace ==
    (/\ Ran
     /\ params.t = "object"
     /\ matchAll(template, 1) # <<>>
     /\ Len(matchAll(template, 1)) = Cardinality(PlaceholderNames(template))
     /\ \A k \in PlaceholderNames(template) :
            Occurrences(template, Placeholder(k)) = 1
     /\ Len(params.entries) = Cardinality(SuppliedKeys(params))
     /\ SuppliedKeys(params) = PlaceholderNames(template))
    => result = Return(ReplacedInPlace(template, 1, params))

\* Whether the text of value v holds nothing replace() or a later entry reads.
PlainValue(v) == ~includes(stringValue(v), "$") /\ ~includes(stringValue(v), "{")

\* Template t from position i on, with the first occurrence of the placeholder
\* of each supplied key not in done replaced in place by the text of its value,
\* and every later occurrence as it is.
RECURSIVE FirstReplaced(_, _, _, _)
FirstReplaced(t, i, p, done) ==
    IF i > Len(t) THEN ""
    ELSE LET j == closingBrace(t, i + 1)
             k == SubSeq(t, i + 1, j - 1)
         IN  IF CharAt(t, i) = "{" /\ j >= i + 2 /\ k \in SuppliedKeys(p) \ done
             THEN stringValue(ValueOf(p, k))
                      \o FirstReplaced(t, j + 1, p, done \cup {k})
             ELSE CharAt(t, i) \o FirstReplaced(t, i + 1, p, done)

\* The supplied keys whose placeholder occurs more than once in template t.
RepeatedKeys(t, p) ==
    {k \in SuppliedKeys(p) : Occurrences(t, Placeholder(k)) >= 2}

\* C19: when the template holds the placeholder of a supplied key more than
\* once (and every supplied key has its placeholder), interpolate does not
\* fail and replaces the first occurrence only: with one key supplied, the
\* text before the first occurrence and all the text after it, later
\* occurrences included, stand in the result as they are; and whenever the
\* values are plain text, the result is the template with the first occurrence
\* of each supplied placeholder replaced by its value and nothing else changed.
C19_OnlyFirstOccurrenceReplaced ==
    (/\ Ran
     /\ params.t = "object"
     /\ Len(params.entries) = Cardinality(SuppliedKeys(params))
     /\ SuppliedKeys(params) \subseteq PlaceholderNames(template)
     /\ RepeatedKeys(template, params) # {})
    => /\ result.ok
       /\ Len(params.entries) = 1
          => LET ph  == Placeholder(params.entries[1].key)
                 pos == indexOf(template, ph)
                 pre == SubSeq(template, 1, pos - 1)
                 suf == SubSeq(template, pos + Len(ph), Len(template))
             IN  /\ Len(result.val) >= Len(pre) + Len(suf)
                 /\ StartsWithAt(result.val, pre, 1)
                 /\ EndsWith(result.val, suf)
                 /\ includes(suf, ph)
       /\ (\A e \in Range(params.entries) : PlainValue(e.value))
          => result.val = FirstReplaced(template, 1, params, {})

\* interpolate ran on /{x}/{x} with {x: 5} and returned /5/{x}.
C19_Witness ==
    /\ Ran
    /\ template = "/{x}/{x}"
    /\ params = Obj(<<[key |-> "x", value |-> Num(5)]>>)
    /\ result = Return("/5/{x}")

\* The entry lists that hold the entries of es in every order.
Reorderings(es) ==
    {[i \in DOMAIN es |-> es[f[i]]] : f \in Permutations(DOMAIN es)}

\* C21: the outcome of interpolate does not depend on the insertion order of
\* params: for the params object handed in and every object holding the same
\* key/value pairs in another order, interpolate returns the same string for
\* both or fails for both.
C21_InsertionOrderIndependent ==
    (Ran /\ params.t = "object")
    => \A es \in Reorderings(params.entries) :
           LET other == interpolateParams(template, Obj(es))
           IN  /\ result.ok <=> other.ok
               /\ result.ok => result.val = other.val

\* C7: interpolate(template, undefined) and interpolate(template, {}) return
\* the template unchanged and do not fail, whatever placeholders it holds.
C7_AbsentOrEmptyParamsReturnTemplate ==
    (Ran /\ params \in {Undefined, Obj(<<>>)}) => result = Return(template)

\* interpolate ran without params on a template that holds a placeholder.
C7_Witness ==
    /\ Ran
    /\ params = Undefined
    /\ matchAll(template, 1) # <<>>
    /\ result.ok

---------------------------------------------------------------------------
(* Properties of the detector and the selector, checked under SpecEnv.     *)

\* The test signals of an environment.
TestSignal(e) ==
    \/ e.NODE_ENV = Str("test")
    \/ e.VITEST_WORKER_ID # Undefined
    \/ /\ e.window
       /\ e.userAgent.t = "string"
       /\ (includes(e.userAgent.s, "jsdom") \/ includes(e.userAgent.s, "happy-dom"))

\* C9: select() returns the JSONP strategy exactly when FORCE_JSONP is the
\* string "true" or classify() is web, and the native strategy otherwise.
C9_JsonpIffOverrideOrWeb ==
    observed.op = "select"
    => /\ observed.value \in {"fetchJsonp", "fetchNative"}
       /\ observed.value = "fetchJsonp"
            <=> \/ observed.env.FORCE_JSONP = Str("true")
                \/ getEnvironmentType(observed.env) = "web"

\* select() ran with the override set in an environment classified test.
C9_Witness ==
    /\ observed.op = "select"
    /\ observed.env.FORCE_JSONP = Str("true")
    /\ observed.env.NODE_ENV = Str("test")
    /\ observed.value = "fetchJsonp"

\* C10: classify() returns test whenever a test signal holds, with or without
\* the window and document globals.
C10_TestSignalsWin ==
    (observed.op = "classify" /\ TestSignal(observed.env))
        => observed.value = "test"

\* classify() ran in a page with window and document whose only test signal
\* is an empty VITEST_WORKER_ID.
C10_Witness ==
    /\ observed.op = "classify"
    /\ observed.env.window /\ observed.env.document
    /\ observed.env.VITEST_WORKER_ID = Str("")
    /\ observed.env.NODE_ENV = Undefined
    /\ observed.env.userAgent = Str("Mozilla/5.0 Chrome/120")
    /\ observed.value = "test"

\* C11: without a test signal, classify() returns web exactly when a window
\* and a document global are both present, and server otherwise; it returns
\* nothing but test, web and server.
C11_WebIffWindowAndDocument ==
    observed.op = "classify"
    => /\ observed.value \in {"test", "web", "server"}
       /\ ~TestSignal(observed.env)
            => /\ observed.value = "web"
                    <=> (observed.env.window /\ observed.env.document)
               /\ observed.value = "server"
                    <=> ~(observed.env.window /\ observed.env.document)

\* classify() ran with a window but no document and no test signal.
C11_Witness ==
    /\ observed.op = "classify"
    /\ ~TestSignal(observed.env)
    /\ observed.env.window /\ ~observed.env.document
    /\ observed.value = "server"

---------------------------------------------------------------------------
(* Properties of buildUrl, checked under SpecUrl.                          *)

Built == builtUrl # NotBuilt

\* The URL u ends with the query parameter name=key.
HasKeyParam(u, name, key) ==
    \E sep \in {"?", "&"} : EndsWith(u, sep \o name \o "=" \o key)

\* C12: the API-key parameter of the built URL is named apiaccesscode exactly
\* when apiPath contains "/ferries/", and AccessCode otherwise, whatever the
\* endpoint holds.
C12_KeyParamFromApiPath ==
    Built
    => /\ HasKeyParam(builtUrl, "apiaccesscode", config.apiKey)
            <=> includes(urlApiPath, "/ferries/")
       /\ HasKeyParam(builtUrl, "AccessCode", config.apiKey)
            <=> ~includes(urlApiPath, "/ferries/")

\* buildUrl ran for a path outside the ferries family with an endpoint that
\* holds "/ferries/".
C12_Witness ==
    /\ Built
    /\ urlApiPath = "/api/other"
    /\ includes(urlEndpoint, "/ferries/")
    /\ HasKeyParam(builtUrl, "AccessCode", config.apiKey)

\* C13: buildUrl returns base + apiPath + endpoint + separator + keyParam +
\* "=" + keyValue, the separator being "&" when the interpolated endpoint
\* holds a "?" and "?" otherwise.
C13_UrlLayout ==
    Built
    => builtUrl = config.baseUrl \o urlApiPath \o urlEndpoint
                      \o (IF \E i \in 1..Len(urlEndpoint) : CharAt(urlEndpoint, i) = "?"
                          THEN "&" ELSE "?")
                      \o getApiKeyParam(urlApiPath) \o "=" \o config.apiKey

\* buildUrl ran on an endpoint whose "?" came from a parameter value.
C13_Witness ==
    /\ Built
    /\ urlEndpoint = "/alternativeformats/a?b"
    /\ config.baseUrl = "https://www.wsdot.wa.gov"
    /\ EndsWith(builtUrl, "/alternativeformats/a?b&apiaccesscode=" \o config.apiKey)

---------------------------------------------------------------------------
(* Properties of the factory under changing signals, checked under         *)
(* SpecAmbient.                                                            *)

\* C14: the strategy of a factory is selected once, when the factory is
\* created: the bound client never changes afterwards, and every request of
\* every endpoint function went to it, whatever the signals were at the call.
C14_StrategyBoundOnce ==
    /\ [](\A k \in DOMAIN requests : requests[k].strategy = fetchFn)
    /\ [][fetchFn # NoClient => fetchFn' = fetchFn]_vars

\* A request went to the native strategy while the signals of that moment
\* select JSONP, and a request of the other endpoint function went there too.
C14_Witness ==
    \E j, k \in DOMAIN requests :
        /\ requests[k].strategy = "fetchNative"
        /\ selectFetchStrategy(requests[k].env) = "fetchJsonp"
        /\ requests[k].env.FORCE_JSONP = Str("true")
        /\ calls[requests[j].call].endpoint # calls[requests[k].call].endpoint
        /\ requests[j].strategy = "fetchNative"

---------------------------------------------------------------------------
(* Properties of the endpoint functions of today's schedule, checked under *)
(* SpecToday.                                                              *)

\* The params of a call completed by onlyRemainingTimes: false.
WithDefaultFalse(p) ==
    Obj(p.entries \o <<[key |-> "onlyRemainingTimes", value |-> Bool(FALSE)]>>)

\* C15: getScheduleTodayByRoute or getScheduleTodayByTerminals called without
\* onlyRemainingTimes requests the endpoint with false in its place:
\* /scheduletoday/<routeId>/false, respectively
\* /scheduletoday/<departingTerminalId>/<arrivingTerminalId>/false.
C15_OnlyRemainingTimesDefaultsFalse ==
    \A i \in DOMAIN calls :
        LET c == calls[i]
            p == Arg(c.args, 1)
        IN  (/\ c.endpoint \in TodayEndpoints
             /\ PlaceholderNames(CallTemplate(c)) \ SuppliedKeys(p)
                    = {"onlyRemainingTimes"})
            => /\ c.status # "threw"
               /\ Len(RequestsOf(i)) = 1
               /\ RequestsOf(i)[1].url
                     = buildUrl(SchedulePath,
                           interpolateParams(CallTemplate(c),
                               WithDefaultFalse(p)).val, config)

---------------------------------------------------------------------------
(* Properties of the detector and the selector under changing signals,     *)
(* checked under SpecEnvChange.                                            *)

\* The class the signals of e stand for.
SignalledType(e) ==
    IF TestSignal(e) THEN "test"
    ELSE IF e.window /\ e.document THEN "web"
    ELSE "server"

\* The strategy the signals of e stand for.
SignalledStrategy(e) ==
    IF e.FORCE_JSONP = Str("true") \/ SignalledType(e) = "web"
    THEN "fetchJsonp" ELSE "fetchNative"

\* C20: the selector and the detector keep no state between calls. Every call
\* of a sequence of select()/classify() calls, with the signals changing in
\* between, returned the value the signals of its own moment stand for, and
\* two calls of the same function under identical signals returned the same.
C20_NoStateBetweenCalls ==
    /\ \A i \in DOMAIN observations :
           LET o == observations[i]
           IN  o.value = IF o.op = "select" THEN SignalledStrategy(o.env)
                         ELSE SignalledType(o.env)
    /\ \A i, j \in DOMAIN observations :
           (/\ observations[i].op = observations[j].op
            /\ observations[i].env = observations[j].env)
           => observations[i].value = observations[j].value

\* select() ran without the override, FORCE_JSONP was then set, and select()
\* ran again and returned the other strategy.
C20_Witness ==
    /\ Len(observations) >= 2
    /\ observations[1].op = "select" /\ observations[2].op = "select"
    /\ observations[1].env = ServerEnv
    /\ observations[2].env = ForcedServerEnv
    /\ observations[1].value = "fetchNative"
    /\ observations[2].value = "fetchJsonp"

---------------------------------------------------------------------------
(* Properties of the factory under a changing configuration, checked under *)
(* SpecConfig.                                                             *)

\* C22: the base URL and the API key are read at each endpoint invocation.
\* Every request's URL is the one built from the configuration of the moment
\* of its invocation; so when a configuration value changed between two
\* invocations of the same endpoint function, the URL of the later one starts
\* with the new base URL and ends with the new key.
C22_ConfigReadAtInvocation ==
    /\ \A k \in DOMAIN requests :
           LET c == calls[requests[k].call]
           IN  requests[k].url
                  = buildUrl(SchedulePath, CallInterpolation(c).val,
                             requests[k].config)
    /\ \A j, k \in DOMAIN requests :
           (/\ j < k
            /\ calls[requests[j].call].endpoint = calls[requests[k].call].endpoint
            /\ requests[j].config # requests[k].config)
           => /\ StartsWithAt(requests[k].url,
                     requests[k].config.baseUrl \o SchedulePath, 1)
              /\ EndsWith(requests[k].url, "=" \o requests[k].config.apiKey)

\* Two invocations of one endpoint function after the factory was created:
\* the first under the initial configuration, the second after the base URL
\* changed, with the new base URL at the head of its URL.
C22_Witness ==
    /\ Len(requests) = 2
    /\ calls[requests[1].call].endpoint = calls[requests[2].call].endpoint
    /\ requests[1].config = DefaultConfig
    /\ requests[2].config.baseUrl = "http://localhost:3000"
    /\ StartsWithAt(requests[1].url, "https://www.wsdot.wa.gov/ferries/", 1)
    /\ StartsWithAt(requests[2].url, "http://localhost:3000/ferries/", 1)

=============================================================================
